---------------------------- MODULE Spec2Model ----------------------------
(***************************************************************************)
(* A model of streamlit_excel_merge_app.py: the complete flow              *)
(* (run_complete_flow: scan of the target sheet, duplicate resolution and  *)
(* write-back), the entity matcher (difflib.get_close_matches) and the     *)
(* incomplete flow (run_incomplete_flow: quota rule and block appender).   *)
(*                                                                         *)
(* A Streamlit script is re-run from its first line on every user          *)
(* interaction; what survives a run is st.session_state and the widgets'   *)
(* values.  Each action below is one whole run of the script, triggered by *)
(* one interaction.                                                        *)
(***************************************************************************)
EXTENDS Integers, Sequences, FiniteSets, TLC

VARIABLES
    df_raw,         \* complete flow: the target sheet as pandas reads it (0-based)
    df_source,      \* complete flow: the source records, in file order
    mapping,        \* complete flow: source_entity -> target_entity as edited
    session_state,  \* complete flow: st.session_state of the duplicate radios
    chosen,         \* complete flow: chosen[(ent, dt)] of the last run
    ws,             \* complete flow: the cells the last run wrote (openpyxl, 1-based)
    unmatched,      \* complete flow: the unmatched list of the last run
    out,            \* complete flow: "none" | "saved" | "crash" for the last run
    pc,             \* complete flow: "uploaded" | "ready" | "error"
    err,            \* complete flow: the exception the scan raised, or "none"
    last,           \* complete flow: the interaction that triggered the last run
    unique_src,     \* entity matcher: the distinct source names
    possibilities,  \* entity matcher: target_entities, the names matched against
    map_df,         \* entity matcher: suggestion_1 of each source name, once computed
    inc_target,     \* incomplete flow: the uploaded target workbook
    df_src,         \* incomplete flow: the parsed dates of the source, in file order
    sel_dates,      \* incomplete flow: st.session_state['sel_dates']
    date_range,     \* incomplete flow: the value of the date-range widget
    dist_type,      \* incomplete flow: the selected distribution type
    dates_to_use,   \* incomplete flow: the dates the last run appended blocks for
    n_real,         \* incomplete flow: N of the last run
    iws,            \* incomplete flow: the cells the last run wrote
    iout,           \* incomplete flow: "none" | "saved" | "crash" for the last run
    ierr            \* incomplete flow: the exception of the last run, or "none"

cvars == <<df_raw, df_source, mapping, session_state, chosen, ws, unmatched,
           out, pc, err, last>>
mvars == <<unique_src, possibilities, map_df>>
ivars == <<inc_target, df_src, sel_dates, date_range, dist_type, dates_to_use,
           n_real, iws, iout, ierr>>
vars == <<cvars, mvars, ivars>>

-----------------------------------------------------------------------------
(* Bounds of the checked instances. *)

NRows == 6          \* rows of the target sheet
NCols == 4          \* columns of the target sheet
MaxRecs == 4        \* source records of the duplicate-resolution instances
MaxLen == 2         \* characters of a name given to the matcher
MaxEnt == 2         \* entity rows of an incomplete target
MaxBlocks == 2      \* distribution blocks an incomplete target already holds
MaxSrcDates == 2    \* source rows of the block-placement instances
MaxN == 5           \* distinct source dates of the quota instances

(* Program constants. *)
ent_col == 2
first_col == 6
width == 7
(* date(2040, 1, 1) as a day number, later than every date of a source *)
placeholder == 99

(* Calendar dates are day numbers; NaT is the null date that               *)
(* pd.to_datetime(errors='coerce') yields; Epoch is 1970-01-01, what       *)
(* pd.to_datetime makes of a small integer.                                *)
NaT == 0
Epoch == 1
Dates == {2, 3}

-----------------------------------------------------------------------------
(* Cell values of a sheet.  A text cell is its text without surrounding    *)
(* whitespace (s) and whether whitespace surrounds it (k = "pad").         *)

StrCell(s) == [k |-> "str", s |-> s, n |-> 0]
PadCell(s) == [k |-> "pad", s |-> s, n |-> 0]
NaNCell == [k |-> "nan", s |-> "", n |-> 0]
DateCell(d) == [k |-> "date", s |-> "", n |-> d]
NumCell(x) == [k |-> "num", s |-> "", n |-> x]

(* str(v).strip(): an empty cell is NaN and prints as "nan"; a number or a *)
(* date prints as text that is no sentinel.                                *)
StrStrip(c) ==
    CASE c.k \in {"str", "pad"} -> c.s
      [] c.k = "nan" -> "nan"
      [] OTHER -> "#"

(* pd.to_datetime(v, errors='coerce').date() *)
ParseDate(c) ==
    CASE c.k = "date" -> c.n
      [] c.k = "num" -> Epoch
      [] OTHER -> NaT

Rows == 0 .. (NRows - 1)
Cols == 0 .. (NCols - 1)

(* df.iat[i, j] counts a negative position from the end. *)
Wrap(i) == IF i < 0 THEN i + NRows ELSE i

SetMin(S) == CHOOSE x \in S : \A y \in S : x <= y

(* range(a, b) as a sequence *)
Range(a, b) == [i \in 1 .. (IF b > a THEN b - a ELSE 0) |-> a + i - 1]

-----------------------------------------------------------------------------
(* 4) Inspect target sheet layout *)

IERows(g) == {r \in Rows : g[r][ent_col] = StrCell("Investing Entity")}
GPRows(g) == {r \in Rows : g[r][ent_col] = StrCell("GP")}

(* .index[0] of an empty selection raises IndexError *)
ScanError(g) ==
    IF IERows(g) = {} \/ GPRows(g) = {} THEN "IndexError" ELSE "none"

ent_label_row(g) == SetMin(IERows(g))
gp_row(g) == SetMin(GPRows(g))
ent_rows(g) == Range(ent_label_row(g) + 1, gp_row(g))
target_entities(g) ==
    LET rs == ent_rows(g)
    IN [i \in 1 .. Len(rs) |-> StrStrip(g[rs[i]][ent_col])]

date_label_row(g) == ent_label_row(g) - 2
date_cols(g) ==
    LET hdr == g[Wrap(date_label_row(g))]
    IN {j \in Cols : StrStrip(hdr[j]) = "Last Day"}
date_map(g) ==
    LET below == g[Wrap(date_label_row(g) + 1)]
    IN [j \in date_cols(g) |-> ParseDate(below[j])]

(* The local variables of a run after step 4 *)
Scan(g) ==
    [ent_rows |-> ent_rows(g),
     target_entities |-> target_entities(g),
     date_map |-> date_map(g)]

-----------------------------------------------------------------------------
(* 6) Duplicate resolution *)

(* A source record whose entity cell is empty maps to NaN, which equals no *)
(* text.                                                                   *)
NaNName == "<NaN>"

mapped_entity(rec, mp) ==
    IF rec.ent \in DOMAIN mp THEN mp[rec.ent] ELSE NaNName

valid_dates(sc) == {sc.date_map[j] : j \in DOMAIN sc.date_map}

(* dup_src: the records with a mapped entity other than "" and a date of   *)
(* the date axis                                                           *)
dup_src(sc, src, mp) ==
    LET vd == valid_dates(sc)
    IN {i \in 1 .. Len(src) :
          mapped_entity(src[i], mp) # "" /\ src[i].date \in vd}

RECURSIVE AmountsFrom(_, _, _, _, _, _)
AmountsFrom(idx, src, mp, key, i, acc) ==
    IF i > Len(src) THEN acc
    ELSE AmountsFrom(idx, src, mp, key, i + 1,
            IF /\ i \in idx
               /\ <<mapped_entity(src[i], mp), src[i].date>> = key
            THEN Append(acc, src[i].amt) ELSE acc)

(* dup_groups: groupby(['mapped_entity', 'parsed_date'])[src_amt]          *)
(* .apply(list), the amounts of each key in file order; groupby drops the  *)
(* keys that hold NaN or NaT.                                              *)
dup_groups(sc, src, mp) ==
    LET idx == dup_src(sc, src, mp)
        keys == {<<mapped_entity(src[i], mp), src[i].date>> : i \in
                    {i \in idx : /\ mapped_entity(src[i], mp) # NaNName
                                 /\ src[i].date # NaT}}
    IN [key \in keys |-> AmountsFrom(idx, src, mp, key, 1, <<>>)]

(* dups = dup_groups[dup_groups['amounts'].apply(len) > 1] *)
dups(sc, src, mp) ==
    LET gs == dup_groups(sc, src, mp)
    IN [key \in {k \in DOMAIN gs : Len(gs[k]) > 1} |-> gs[key]]

RECURSIVE SumSeq(_)
SumSeq(s) == IF s = <<>> THEN 0 ELSE Head(s) + SumSeq(Tail(s))

(* str(a): the decimal digits of a non-negative integer *)
RECURSIVE StrOf(_)
StrOf(a) == IF a < 10 THEN <<a>> ELSE Append(StrOf(a \div 10), a % 10)

(* float(sel): the number a string of digits denotes *)
RECURSIVE FloatOf(_)
FloatOf(s) ==
    IF s = <<>> THEN 0
    ELSE 10 * FloatOf(SubSeq(s, 1, Len(s) - 1)) + s[Len(s)]

(* A radio option: 'SUM', or the text of one amount *)
SUM == [sum |-> TRUE, txt |-> <<>>]
Opt(a) == [sum |-> FALSE, txt |-> StrOf(a)]

(* options = [str(a) for a in amts] + ['SUM'] *)
options(amts) == {Opt(amts[i]) : i \in 1 .. Len(amts)} \cup {SUM}

(* A bulk action that sets only the keys that hold nothing yet *)
SumAllStateKeepsChoices(ss, keys) ==
    [k \in (DOMAIN ss) \cup keys |-> IF k \in DOMAIN ss THEN ss[k] ELSE SUM]

(* "Sum All Duplicates": every duplicate group's key is set to 'SUM' *)
SumAllState(ss, keys) ==
    [k \in (DOMAIN ss) \cup keys |-> IF k \in keys THEN SUM ELSE ss[k]]

(* if key not in st.session_state: st.session_state[key] = 'SUM' *)
DefaultState(ss, keys) ==
    [k \in (DOMAIN ss) \cup keys |-> IF k \in DOMAIN ss THEN ss[k] ELSE SUM]

(* A resolution that takes the first amount of the group for 'SUM' *)
ResolveFirstForSum(sel, amts) ==
    IF sel = SUM THEN amts[1] ELSE FloatOf(sel.txt)

(* chosen[(ent, dt)] = sum(amts) if sel == 'SUM' else float(sel) *)
Resolve(sel, amts) == IF sel = SUM THEN SumSeq(amts) ELSE FloatOf(sel.txt)

Chosen(dp, ss) == [key \in DOMAIN dp |-> Resolve(ss[key], dp[key])]

-----------------------------------------------------------------------------
(* 7) Finalize and write-back *)

(* m = df_source[(mapped_entity == ent) & (parsed_date == dist_date)] *)
Matching(src, mp, ent, dt) ==
    {i \in 1 .. Len(src) : mapped_entity(src[i], mp) = ent /\ src[i].date = dt}

(* The (axis position, column) pairs the loops visit: every entity row     *)
(* with every date column whose date is not null.                          *)
Visited(sc) ==
    {p \in (1 .. Len(sc.ent_rows)) \X (DOMAIN sc.date_map) :
        sc.date_map[p[2]] # NaT}

(* if not m.empty *)
Matched(sc, src, mp) ==
    {p \in Visited(sc) :
        Matching(src, mp, sc.target_entities[p[1]], sc.date_map[p[2]]) # {}}

(* amt = chosen.get((ent, dist_date), m[src_amt].iloc[0]) *)
Amt(sc, src, mp, ch, p) ==
    LET ent == sc.target_entities[p[1]]
        dt == sc.date_map[p[2]]
    IN IF <<ent, dt>> \in DOMAIN ch THEN ch[<<ent, dt>>]
       ELSE src[SetMin(Matching(src, mp, ent, dt))].amt

(* A writer that turns the scan's column into a 1-based one, as it does    *)
(* the row *)
WriteColShifted(col_idx) == col_idx + 1

(* ws.cell(row=r+1, column=col_idx): the openpyxl address of a write *)
WriteRow(r) == r + 1
WriteCol(col_idx) == col_idx
WriteAt(sc, p) == <<WriteRow(sc.ent_rows[p[1]]), WriteCol(p[2])>>

(* openpyxl refuses a row or column below 1 (ValueError) *)
WriteCrashes(sc, src, mp) ==
    \E p \in Matched(sc, src, mp) : WriteAt(sc, p)[1] < 1 \/ WriteAt(sc, p)[2] < 1

(* A writer that clears the cell of an unmatched pair *)
WriteBackClearsUnmatched(sc, src, mp, ch) ==
    LET ms == Matched(sc, src, mp)
    IN [c \in {WriteAt(sc, p) : p \in Visited(sc)} |->
          IF \E q \in ms : WriteAt(sc, q) = c
          THEN NumCell(Amt(sc, src, mp, ch, CHOOSE q \in ms : WriteAt(sc, q) = c))
          ELSE NaNCell]

(* The cells written, with the value each one ends with *)
WriteBack(sc, src, mp, ch) ==
    LET ms == Matched(sc, src, mp)
    IN [c \in {WriteAt(sc, p) : p \in ms} |->
          NumCell(Amt(sc, src, mp, ch, CHOOSE q \in ms : WriteAt(sc, q) = c))]

Unmatched(sc, src, mp) ==
    {<<sc.target_entities[p[1]], sc.date_map[p[2]]>> :
        p \in Visited(sc) \ Matched(sc, src, mp)}

(* The sheet of the workbook offered for download, read 0-based as the     *)
(* scan reads it: the uploaded sheet with the written cells laid over it.  *)
Saved(r, c) ==
    IF <<r + 1, c + 1>> \in DOMAIN ws THEN ws[<<r + 1, c + 1>>] ELSE df_raw[r][c]

-----------------------------------------------------------------------------
(* 5) Entity mapping: difflib.get_close_matches(x, target_entities, n=1,   *)
(* cutoff=0.6).  A name is a sequence of character codes.                  *)

Min2(x, y) == IF x < y THEN x ELSE y

(* SequenceMatcher.find_longest_match(alo, ahi, blo, bhi) on a[alo:ahi]    *)
(* and b[blo:bhi] (0-based, half open): <<i, j, k>> with a[i:i+k] equal to *)
(* b[j:j+k], k greatest, then i least, then j least; k = 0 when no         *)
(* character matches.                                                      *)
find_longest_match(a, b, alo, ahi, blo, bhi) ==
    LET blocks == {m \in (alo .. (ahi - 1)) \X (blo .. (bhi - 1)) \X (1 .. Len(a)) :
                     /\ m[1] + m[3] <= ahi
                     /\ m[2] + m[3] <= bhi
                     /\ \A d \in 1 .. m[3] : a[m[1] + d] = b[m[2] + d]}
    IN IF blocks = {} THEN <<alo, blo, 0>>
       ELSE CHOOSE m \in blocks : \A o \in blocks :
                \/ m[3] > o[3]
                \/ m[3] = o[3] /\ m[1] < o[1]
                \/ m[3] = o[3] /\ m[1] = o[1] /\ m[2] <= o[2]

(* The total size of get_matching_blocks(): the longest match, then the    *)
(* same to the left and to the right of it.                                *)
RECURSIVE matching_size(_, _, _, _, _, _)
matching_size(a, b, alo, ahi, blo, bhi) ==
    LET m == find_longest_match(a, b, alo, ahi, blo, bhi)
    IN IF m[3] = 0 THEN 0
       ELSE m[3]
            + (IF alo < m[1] /\ blo < m[2]
               THEN matching_size(a, b, alo, m[1], blo, m[2]) ELSE 0)
            + (IF m[1] + m[3] < ahi /\ m[2] + m[3] < bhi
               THEN matching_size(a, b, m[1] + m[3], ahi, m[2] + m[3], bhi) ELSE 0)

(* _calculate_ratio(matches, length) = 2.0 * matches / length, or 1.0 for  *)
(* length 0, kept as the fraction <<numerator, denominator>>: the          *)
(* quotients of integers this small compare as floats the way they compare *)
(* as fractions.                                                           *)
calculate_ratio(matches, length) ==
    IF length # 0 THEN <<2 * matches, length>> ELSE <<1, 1>>

ratio(a, b) ==
    calculate_ratio(matching_size(a, b, 0, Len(a), 0, Len(b)), Len(a) + Len(b))

Count(s, ch) == Cardinality({i \in 1 .. Len(s) : s[i] = ch})

(* quick_ratio(): the size of the intersection of a and b as multisets *)
quick_ratio(a, b) ==
    LET chars == {a[i] : i \in 1 .. Len(a)}
        RECURSIVE Total(_)
        Total(S) == IF S = {} THEN 0
                    ELSE LET ch == CHOOSE x \in S : TRUE
                         IN Min2(Count(a, ch), Count(b, ch)) + Total(S \ {ch})
    IN calculate_ratio(Total(chars), Len(a) + Len(b))

real_quick_ratio(a, b) ==
    calculate_ratio(Min2(Len(a), Len(b)), Len(a) + Len(b))

(* score >= cutoff with cutoff = 0.6 *)
AtLeastCutoff(score) == 10 * score[1] >= 6 * score[2]

ScoreLess(p, q) == p[1] * q[2] < q[1] * p[2]
ScoreEq(p, q) == p[1] * q[2] = q[1] * p[2]

(* x < y for str: the first differing character decides, then the length *)
StrLess(x, y) ==
    \/ \E i \in 1 .. Min2(Len(x), Len(y)) :
          /\ \A d \in 1 .. (i - 1) : x[d] = y[d]
          /\ x[i] < y[i]
    \/ Len(x) < Len(y) /\ \A d \in 1 .. Len(x) : x[d] = y[d]

(* The possibilities x that pass the three tests, with s.set_seq2(word)    *)
(* and s.set_seq1(x)                                                       *)
Accepted(word, poss) ==
    {i \in 1 .. Len(poss) :
        /\ AtLeastCutoff(real_quick_ratio(poss[i], word))
        /\ AtLeastCutoff(quick_ratio(poss[i], word))
        /\ AtLeastCutoff(ratio(poss[i], word))}

(* A matcher that returns the first possibility that passes *)
get_close_match_first(word, poss) ==
    LET acc == Accepted(word, poss)
    IN IF acc = {} THEN <<>> ELSE <<poss[SetMin(acc)]>>

(* get_close_matches(word, poss, n=1, cutoff=0.6): the greatest            *)
(* (score, x) of the accepted possibilities, as a list of at most one name *)
get_close_matches(word, poss) ==
    LET acc == Accepted(word, poss)
        Below(i, j) ==
            \/ ScoreLess(ratio(poss[i], word), ratio(poss[j], word))
            \/ /\ ScoreEq(ratio(poss[i], word), ratio(poss[j], word))
               /\ (StrLess(poss[i], poss[j]) \/ poss[i] = poss[j])
    IN IF acc = {} THEN <<>>
       ELSE <<poss[CHOOSE j \in acc : \A i \in acc : Below(i, j)]>>

(* (difflib.get_close_matches(x, target_entities, n=1, cutoff=0.6)         *)
(* or [""])[0]                                                             *)
suggestion_1(x, poss) ==
    LET found == get_close_matches(x, poss)
    IN IF found = <<>> THEN <<>> ELSE found[1]

NotSuggested == [x \in {} |-> <<>>]

(* map_df['suggestion_1'] = map_df['source_entity'].apply(...) *)
Suggest ==
    /\ map_df = NotSuggested
    /\ unique_src # {}
    /\ map_df' = [x \in unique_src |-> suggestion_1(x, possibilities)]
    /\ UNCHANGED <<unique_src, possibilities>>
    /\ UNCHANGED <<cvars, ivars>>

NoMatcher ==
    /\ unique_src = {}
    /\ possibilities = <<>>
    /\ map_df = NotSuggested

-----------------------------------------------------------------------------
(* The runs of run_complete_flow *)

NoState == [k \in {} |-> SUM]
NoCells == [c \in {} |-> NaNCell]
NoChoice == [k \in {} |-> 0]

(* The duplicate groups of the uploaded files *)
CurDups == dups(Scan(df_raw), df_source, mapping)

(* Steps 1 to 6 of a run whose scan succeeds and finds the duplicate       *)
(* groups dp, from the session state ss the widgets left *)
Resolved(dp, ss, sumAll) ==
    LET ss1 == IF sumAll THEN SumAllState(ss, DOMAIN dp) ELSE ss
        ss2 == DefaultState(ss1, DOMAIN dp)
    IN /\ session_state' = ss2
       /\ chosen' = Chosen(dp, ss2)

(* The interaction that triggers a run, and whether "Sum All Duplicates"   *)
(* was clicked before it in this session.                                  *)
Event(type, key, o) ==
    [type |-> type, key |-> key, opt |-> o,
     bulk |-> last.bulk \/ last.type = "sumall"]

NoDownload == ws' = NoCells /\ unmatched' = {} /\ out' = "none"

(* The first run after both files are uploaded. *)
Run ==
    /\ pc = "uploaded"
    /\ IF ScanError(df_raw) # "none"
       THEN /\ pc' = "error"
            /\ err' = ScanError(df_raw)
            /\ UNCHANGED <<session_state, chosen>>
       ELSE /\ pc' = "ready"
            /\ err' = "none"
            /\ Resolved(CurDups, session_state, FALSE)
    /\ last' = Event("run", <<>>, SUM)
    /\ UNCHANGED <<df_raw, df_source, mapping, ws, unmatched, out>>
    /\ UNCHANGED <<mvars, ivars>>

(* A run triggered by the "Sum All Duplicates" button, which is shown when *)
(* there are duplicate groups. *)
ClickSumAll ==
    /\ pc = "ready"
    /\ LET dp == CurDups
       IN DOMAIN dp # {} /\ Resolved(dp, session_state, TRUE)
    /\ NoDownload
    /\ last' = Event("sumall", <<>>, SUM)
    /\ UNCHANGED <<df_raw, df_source, mapping, pc, err>>
    /\ UNCHANGED <<mvars, ivars>>

(* A run triggered by picking option o of the radio of group key. *)
SelectRadio(dp, key, o) ==
    /\ o # session_state[key]
    /\ Resolved(dp, [session_state EXCEPT ![key] = o], FALSE)
    /\ NoDownload
    /\ last' = Event("radio", key, o)
    /\ UNCHANGED <<df_raw, df_source, mapping, pc, err>>
    /\ UNCHANGED <<mvars, ivars>>

(* A run triggered by "Finalize and Download Updated Target". *)
ClickFinalize ==
    /\ pc = "ready"
    /\ LET sc == Scan(df_raw)
           dp == dups(sc, df_source, mapping)
       IN /\ Resolved(dp, session_state, FALSE)
          /\ IF WriteCrashes(sc, df_source, mapping)
             THEN ws' = NoCells /\ unmatched' = {} /\ out' = "crash"
             ELSE /\ ws' = WriteBack(sc, df_source, mapping, chosen')
                  /\ unmatched' = Unmatched(sc, df_source, mapping)
                  /\ out' = "saved"
    /\ last' = Event("finalize", <<>>, SUM)
    /\ UNCHANGED <<df_raw, df_source, mapping, pc, err>>
    /\ UNCHANGED <<mvars, ivars>>

Next ==
    \/ Run
    \/ ClickSumAll
    \/ /\ pc = "ready"
       /\ LET dp == CurDups
          IN \E key \in DOMAIN dp : \E o \in options(dp[key]) :
                SelectRadio(dp, key, o)
    \/ ClickFinalize

-----------------------------------------------------------------------------
(* run_incomplete_flow.  The target workbook is read with openpyxl, rows   *)
(* and columns counted from 1; inc_target is [colC, k, rep]: column C from *)
(* row 1 down, the number of 7-column blocks the sheet holds from          *)
(* first_col on (block b with the date b + 1), and how row 4 stores a      *)
(* block's dates.                                                          *)

NoneCell == [k |-> "none"]
DateTimeCell(d) == [k |-> "datetime", n |-> d]
(* f"{last_day.day} {last_day.strftime('%B')} {last_day.year}" *)
FullLabel(d) == [k |-> "full", n |-> d]
(* f"{short} - {short}" with short = f"{day} {strftime('%b')} {year}" *)
ShortLabel(d) == [k |-> "short", n |-> d]
(* d.strftime("%Y-%m-%d") *)
strftime(d) == [ymd |-> d]

BlockDate(b) == b + 1

(* A date stored as a date, as a datetime or as its text label *)
Stored(r, d) ==
    CASE r = "date" -> DateCell(d)
      [] r = "datetime" -> DateTimeCell(d)
      [] OTHER -> FullLabel(d)

IncRows(t) == 1 .. Len(t.colC)

(* The value of cell (r, c) of the uploaded workbook *)
OrigCell(t, r, c) ==
    IF c = 3 THEN (IF r \in IncRows(t) THEN t.colC[r] ELSE NoneCell)
    ELSE IF c >= first_col /\ c < first_col + width * t.k /\ r \in IncRows(t)
    THEN LET b == ((c - first_col) \div width) + 1
             off == (c - first_col) % width
         IN CASE r \in {1, 3, 5} -> [k |-> "hdr", row |-> r, off |-> off]
              [] r = 2 -> (IF off = 0 THEN ShortLabel(BlockDate(b))
                           ELSE IF off = 1 THEN StrCell("Custom")
                           ELSE NoneCell)
              [] r = 4 -> (IF off \in {0, 1} THEN Stored(t.rep, BlockDate(b))
                           ELSE IF off = 2 THEN StrCell("Preferred Return")
                           ELSE IF off = 3 THEN StrCell("USD")
                           ELSE NoneCell)
              [] OTHER -> NumCell(7)
    ELSE NoneCell

(* 4) Locate entity rows: colC.index(...) raises ValueError *)
Index(colC, v) == SetMin({i \in 1 .. Len(colC) : colC[i] = v})
IncScanError(colC) ==
    IF \A i \in 1 .. Len(colC) : colC[i] # StrCell("Investing Entity") THEN "ValueError"
    ELSE IF \A i \in 1 .. Len(colC) : colC[i] # StrCell("GP") THEN "ValueError"
    ELSE "none"
(* range(ent_label_row+1, gp_row+1): the entity rows and the GP row *)
entity_rows(colC) ==
    Range(Index(colC, StrCell("Investing Entity")) + 1,
          Index(colC, StrCell("GP")) + 1)

(* 6) Build new-dates list *)
existing(t) == OrigCell(t, 4, first_col + 1)

(* d != existing: a date equals neither a datetime nor a text *)
DiffersFromExisting(d, e) == ~ (e.k = "date" /\ e.n = d)

RECURSIVE Sorted(_)
Sorted(S) == IF S = {} THEN <<>> ELSE <<SetMin(S)>> \o Sorted(S \ {SetMin(S)})

(* sorted([d for d in uniq if pd.notna(d) and d != existing]) *)
new_dates(t, src) ==
    Sorted({src[i] : i \in {i \in 1 .. Len(src) :
                /\ src[i] # NaT
                /\ DiffersFromExisting(src[i], existing(t))}})

SeqFilter(sq, S) == SelectSeq(sq, LAMBDA d : d \in S)

(* The quota rule with N / 0.5 *)
required_half(N) == 2 * N

(* required = ceil(N / 0.56): the least count r with 0.56 * r >= N.  The   *)
(* double 0.56 is a little above 14/25, so N / 0.56 is rounded to a double *)
(* that is at most 25 N / 14 and above the integer below it.               *)
required(N) == CHOOSE r \in 0 .. (2 * N) : 56 * r >= 100 * N /\ 56 * (r - 1) < 100 * N

(* dates_to_use.extend([placeholder] * extra) if extra > 0 *)
Padded(dtu) ==
    LET extra == required(Len(dtu)) - Len(dtu)
    IN IF extra > 0 THEN dtu \o [i \in 1 .. extra |-> placeholder] ELSE dtu

(* A block allocated over the first block *)
BlockBaseNoSkip(idx) == first_col + width * idx

(* base = first_col + width*(idx+1), idx counted from 0 *)
BlockBase(idx) == first_col + width * (idx + 1)

(* The cell (r, c) of the block of last_day at base, as the loop body      *)
(* leaves it: the later writes of the body win.  ers has two rows or more. *)
BlockCell(t, ers, last_day, dist, base, r, c) ==
    LET off == c - base
        r_gp == ers[Len(ers)]
        isEnt == \E i \in 1 .. Len(ers) : ers[i] = r
    IN IF isEnt /\ off = 4
       THEN (IF r = r_gp THEN [k |-> "formula", f |-> "net_gp", g |-> base,
                               t |-> base + 1, a |-> base + 3, row |-> r]
             ELSE [k |-> "formula", f |-> "net", g |-> base, t |-> base + 1,
                   a |-> base + 3, p |-> base + 2, row |-> r])
       ELSE IF r = r_gp /\ off = 0
       THEN [k |-> "formula", f |-> "gp", col |-> base + 2,
             s |-> ers[1], e |-> ers[Len(ers) - 1]]
       ELSE IF isEnt /\ off = 5 THEN DateTimeCell(last_day)
       ELSE IF r = 4 /\ off \in {0, 1} THEN FullLabel(last_day)
       ELSE IF r = 4 /\ off = 2 THEN StrCell(dist)
       ELSE IF r = 4 /\ off = 3 THEN StrCell("USD")
       ELSE IF r = 2 /\ off = 0 THEN ShortLabel(last_day)
       ELSE IF r = 2 /\ off = 1 THEN StrCell("Custom")
       ELSE IF r = 2 /\ off = 2 THEN StrCell("-")
       ELSE IF r = 2 /\ off = 3 THEN StrCell("datetime.now().year")
       ELSE IF r \in {1, 3, 5} THEN OrigCell(t, r, first_col + off)
       ELSE NoneCell

(* The cells the body writes for the block at base *)
BlockCells(ers, base) ==
    ({1, 3, 5} \X (base .. (base + width - 1)))
      \cup ({2, 4} \X (base .. (base + 3)))
      \cup ({ers[i] : i \in 1 .. Len(ers)} \X {base + 4, base + 5})
      \cup {<<ers[Len(ers)], base>>}

NoIncCells == [c \in {} |-> NoneCell]

(* One pass of the loop body: the cells of the block of dtu[i] *)
Block(t, ers, dtu, dist, i) ==
    LET base == BlockBase(i - 1)
    IN [c \in BlockCells(ers, base) |->
            BlockCell(t, ers, dtu[i], dist, base, c[1], c[2])]

(* 7) Append blocks: the cells written for the dates dtu from the i-th on, *)
(* a later pass of the loop overwriting an earlier one *)
RECURSIVE Appended(_, _, _, _, _)
Appended(t, ers, dtu, dist, i) ==
    IF i > Len(dtu) THEN NoIncCells
    ELSE Appended(t, ers, dtu, dist, i + 1) @@ Block(t, ers, dtu, dist, i)

(* The sheet of the workbook offered for download *)
IncSaved(r, c) ==
    IF <<r, c>> \in DOMAIN iws THEN iws[<<r, c>>] ELSE OrigCell(inc_target, r, c)

Unset == [set |-> FALSE, v |-> {}]
Set(v) == [set |-> TRUE, v |-> v]

(* One run of run_incomplete_flow, with st.session_state['sel_dates'] as   *)
(* sel and the date-range widget's value as rng when the run starts        *)
IncRunWith(sel, rng) ==
    IF IncScanError(inc_target.colC) # "none"
    THEN /\ ierr' = IncScanError(inc_target.colC)
         /\ iout' = "crash"
         /\ iws' = NoIncCells /\ dates_to_use' = <<>> /\ n_real' = 0
         /\ sel_dates' = sel /\ date_range' = rng
    ELSE
    LET nd == new_dates(inc_target, df_src)
        date_strs == {strftime(nd[i]) : i \in 1 .. Len(nd)}
        selected == IF sel.set THEN sel.v ELSE date_strs
        value == IF rng.set THEN rng.v ELSE <<nd[1], nd[Len(nd)]>>
        ers == entity_rows(inc_target.colC)
    IN /\ sel_dates' = Set(selected)
       /\ date_range' = IF nd = <<>> THEN Unset ELSE Set(value)
       /\ IF nd # <<>> /\ Len(value) # 2
          THEN \* start, end = st.date_input(...): ValueError
               /\ ierr' = "ValueError" /\ iout' = "crash"
               /\ iws' = NoIncCells /\ dates_to_use' = <<>> /\ n_real' = 0
          ELSE LET in_range == IF nd = <<>> THEN <<>>
                               ELSE SelectSeq(nd, LAMBDA d : value[1] <= d /\ d <= value[2])
                   chosen_dates == SelectSeq(in_range, LAMBDA d : strftime(d) \in selected)
                   dtu == Padded(chosen_dates)
               IN /\ n_real' = Len(chosen_dates)
                  /\ dates_to_use' = dtu
                  /\ IF dtu # <<>> /\ Len(ers) < 2
                     THEN \* entity_rows[0], entity_rows[-2]: IndexError
                          /\ ierr' = "IndexError" /\ iout' = "crash"
                          /\ iws' = NoIncCells
                     ELSE /\ ierr' = "none" /\ iout' = "saved"
                          /\ iws' = IF dtu = <<>> THEN NoIncCells
                                    ELSE Appended(inc_target, ers, dtu, dist_type, 1)

IncFrame == UNCHANGED <<inc_target, df_src, cvars, mvars>>

(* The first run after both files are uploaded *)
IncRun ==
    /\ iout = "none" /\ ierr = "none"
    /\ IncRunWith(sel_dates, date_range)
    /\ UNCHANGED dist_type
    /\ IncFrame

(* The widgets below the scan are shown once the scan has succeeded *)
IncReady == iout # "none" /\ IncScanError(inc_target.colC) = "none"

(* "Select All Dates" *)
ClickSelectAll ==
    /\ IncReady
    /\ IncRunWith(Unset, date_range)
    /\ UNCHANGED dist_type
    /\ IncFrame

(* "Clear All Dates" *)
ClickClearAll ==
    /\ IncReady
    /\ IncRunWith(Set({}), date_range)
    /\ UNCHANGED dist_type
    /\ IncFrame

(* The multiselect: one of its options is added or removed *)
ToggleDate(d) ==
    /\ IncReady
    /\ IncRunWith(Set(IF strftime(d) \in sel_dates.v
                      THEN sel_dates.v \ {strftime(d)}
                      ELSE sel_dates.v \cup {strftime(d)}), date_range)
    /\ UNCHANGED dist_type
    /\ IncFrame

(* The date-range widget, first click: the widget returns the start alone *)
PickStart(s) ==
    /\ IncReady
    /\ date_range.set
    /\ IncRunWith(sel_dates, Set(<<s>>))
    /\ UNCHANGED dist_type
    /\ IncFrame

(* The date-range widget, second click: the end of the range *)
PickEnd(e) ==
    /\ IncReady
    /\ date_range.set
    /\ Len(date_range.v) = 1
    /\ e >= date_range.v[1]
    /\ IncRunWith(sel_dates, Set(<<date_range.v[1], e>>))
    /\ UNCHANGED dist_type
    /\ IncFrame

dist_options == {"Preferred Return", "Interest"}

(* The distribution-type selectbox (two of its options), shown by a run    *)
(* that got past the date-range widget *)
SelectDistType(d) ==
    /\ IncReady
    /\ ierr # "ValueError"
    /\ d # dist_type
    /\ dist_type' = d
    /\ IncRunWith(sel_dates, date_range)
    /\ IncFrame

SrcDates == {df_src[i] : i \in 1 .. Len(df_src)} \ {NaT}
Options == LET nd == new_dates(inc_target, df_src) IN {nd[i] : i \in 1 .. Len(nd)}

NextInc ==
    \/ IncRun
    \/ ClickSelectAll
    \/ ClickClearAll
    \/ \E d \in Options : ToggleDate(d)
    \/ \E s \in SrcDates : PickStart(s)
    \/ \E e \in SrcDates : PickEnd(e)
    \/ \E d \in dist_options : SelectDistType(d)

NoIncomplete ==
    /\ inc_target = [colC |-> <<>>, k |-> 0, rep |-> "date"]
    /\ df_src = <<>>
    /\ sel_dates = Unset /\ date_range = Unset
    /\ dist_type = "Preferred Return"
    /\ dates_to_use = <<>> /\ n_real = 0
    /\ iws = NoIncCells /\ iout = "none" /\ ierr = "none"

-----------------------------------------------------------------------------
(* The uploaded files of the checked instances *)

IE == StrCell("Investing Entity")
GP == StrCell("GP")
JohnSmith == "John Smith"
AnnLee == "Ann Lee"

(* A sheet with column ent_col holding colC, the header row on top with    *)
(* "Last Day" over the columns of dts (with surrounding whitespace in the  *)
(* odd columns), the dates of dts below it, and an old amount in every     *)
(* other cell.                                                             *)
Sheet(colC, dts) ==
    [r \in Rows |-> [c \in Cols |->
        IF c = ent_col THEN colC[r + 1]
        ELSE IF r = 0
             THEN IF c \in DOMAIN dts
                  THEN (IF c % 2 = 1 THEN PadCell("Last Day") ELSE StrCell("Last Day"))
                  ELSE StrCell("First Day")
        ELSE IF r = 1
             THEN IF c \in DOMAIN dts /\ dts[c] # NaT
                  THEN DateCell(dts[c]) ELSE StrCell("n/a")
        ELSE NumCell(7)]]

SeqsUpTo(S, n) == UNION {[1 .. k -> S] : k \in 0 .. n}

(* Date axes: at most two "Last Day" columns, each with a date or an       *)
(* unparseable date cell.                                                  *)
DateLayouts ==
    UNION {[L -> Dates \cup {NaT}] :
            L \in {M \in SUBSET (Cols \ {ent_col}) : Cardinality(M) <= 2}}

(* Entity columns of a well-formed template: two rows of headers, the      *)
(* "Investing Entity" label, the entity rows, "GP".  An entity cell holds  *)
(* a name (with surrounding whitespace in the odd rows) or whitespace only.*)
EntityCell(name, r) ==
    IF name = "" \/ r % 2 = 1 THEN PadCell(name) ELSE StrCell(name)
WellFormedColumns ==
    {<<NaNCell, NaNCell, IE>> \o [i \in 1 .. (NRows - 4) |-> EntityCell(es[i], i + 2)]
        \o <<GP>> : es \in [1 .. (NRows - 4) -> {JohnSmith, ""}]}

WriteRecords == [ent : {"Jon Smith"}, date : Dates, amt : {100}]

FreshSession ==
    /\ session_state = NoState
    /\ chosen = NoChoice
    /\ ws = NoCells
    /\ unmatched = {}
    /\ out = "none"
    /\ pc = "uploaded"
    /\ err = "none"
    /\ last = [type |-> "upload", key |-> <<>>, opt |-> SUM, bulk |-> FALSE]
    /\ NoMatcher
    /\ NoIncomplete

(* Write-back instances: many target sheets, sources of at most two        *)
(* records of one entity.                                                  *)
Init ==
    /\ \E colC \in WellFormedColumns, dts \in DateLayouts :
            df_raw = Sheet(colC, dts)
    /\ df_source \in SeqsUpTo(WriteRecords, 2)
    /\ mapping \in [{"Jon Smith"} -> {JohnSmith, ""}]
    /\ FreshSession

Spec == Init /\ [][Next]_vars

(* Duplicate-resolution instances: one well-formed sheet with the dates of *)
(* Dates in its last-day columns 1 and 3, many sources.                    *)
DupSheet ==
    Sheet(<<NaNCell, NaNCell, IE>>
            \o [i \in 1 .. (NRows - 4) |->
                  EntityCell(IF i = 1 THEN JohnSmith ELSE AnnLee, i + 2)]
            \o <<GP>>,
          (1 :> 2) @@ (3 :> 3))

DupRecords ==
    {[ent |-> "Jon Smith", date |-> d, amt |-> 100] : d \in Dates}
        \cup {[ent |-> JohnSmith, date |-> d, amt |-> 50] : d \in Dates}

InitDup ==
    /\ df_raw = DupSheet
    /\ df_source \in SeqsUpTo(DupRecords, MaxRecs)
    /\ mapping \in [{"Jon Smith", JohnSmith} -> {JohnSmith, ""}]
    /\ FreshSession

SpecDup == InitDup /\ [][Next]_vars

(* Layout instances: every entity column over the two sentinels and a      *)
(* name, with and without a "Last Day" column; the source of the           *)
(* spec's example.                                                         *)
InitScan ==
    /\ \E colC \in [1 .. NRows -> {IE, GP, StrCell(JohnSmith)}],
          dts \in {<<>>, (3 :> 2)} :
            df_raw = Sheet(colC, dts)
    /\ df_source = <<[ent |-> "Jon Smith", date |-> 2, amt |-> 100],
                     [ent |-> JohnSmith, date |-> 2, amt |-> 50]>>
    /\ mapping = [s \in {"Jon Smith", JohnSmith} |-> JohnSmith]
    /\ FreshSession

SpecScan == InitScan /\ [][Next]_vars

(* Matcher instances: one or two distinct source names (a source name is  *)
(* never empty: an empty cell of the source is dropped) and at most two    *)
(* target names, over the characters "a" and "b".                          *)
Names == UNION {[1 .. k -> {97, 98}] : k \in 0 .. MaxLen}

InitMatch ==
    /\ unique_src \in {S \in SUBSET (Names \ {<<>>}) : Cardinality(S) \in {1, 2}}
    /\ possibilities \in SeqsUpTo(Names, 2)
    /\ map_df = NotSuggested
    /\ df_raw = <<>> /\ df_source = <<>> /\ mapping = <<>>
    /\ session_state = NoState /\ chosen = NoChoice /\ ws = NoCells
    /\ unmatched = {} /\ out = "none" /\ pc = "idle" /\ err = "none"
    /\ last = [type |-> "idle", key |-> <<>>, opt |-> SUM, bulk |-> FALSE]
    /\ NoIncomplete

NextMatch == Suggest

SpecMatch == InitMatch /\ [][NextMatch]_vars

(* Column C of an incomplete target: four rows of headers, the label in   *)
(* row 5, n entity rows, "GP" *)
IncColumn(n) ==
    <<NoneCell, NoneCell, NoneCell, NoneCell, IE>>
        \o [i \in 1 .. n |-> StrCell(JohnSmith)] \o <<GP>>

IdleOthers ==
    /\ df_raw = <<>> /\ df_source = <<>> /\ mapping = <<>>
    /\ session_state = NoState /\ chosen = NoChoice /\ ws = NoCells
    /\ unmatched = {} /\ out = "none" /\ pc = "idle" /\ err = "none"
    /\ last = [type |-> "idle", key |-> <<>>, opt |-> SUM, bulk |-> FALSE]
    /\ NoMatcher

FreshIncSession ==
    /\ sel_dates = Unset /\ date_range = Unset
    /\ dist_type = "Preferred Return"
    /\ dates_to_use = <<>> /\ n_real = 0
    /\ iws = NoIncCells /\ iout = "none" /\ ierr = "none"

(* Block-placement instances: targets with and without the sentinels, with *)
(* up to MaxEnt entity rows and up to MaxBlocks blocks whose dates are     *)
(* stored in any of three ways; sources of up to MaxSrcDates rows.         *)
InitInc ==
    /\ \E colC \in {IncColumn(n) : n \in 0 .. MaxEnt}
                     \cup {<<NoneCell, NoneCell, NoneCell, NoneCell, IE, StrCell(JohnSmith)>>,
                           <<NoneCell, NoneCell, NoneCell, NoneCell, NoneCell, GP>>},
          k \in 1 .. MaxBlocks, r \in {"date", "datetime", "text"} :
            inc_target = [colC |-> colC, k |-> k, rep |-> r]
    /\ df_src \in SeqsUpTo(Dates \cup {NaT}, MaxSrcDates)
    /\ FreshIncSession
    /\ IdleOthers

SpecInc == InitInc /\ [][NextInc]_vars

(* Quota instances: one well-formed target with one block; the source      *)
(* holds MaxN distinct dates, latest first.                                *)
InitQuota ==
    /\ inc_target = [colC |-> IncColumn(1), k |-> 1, rep |-> "datetime"]
    /\ df_src = [i \in 1 .. MaxN |-> 10 + MaxN - i]
    /\ FreshIncSession
    /\ IdleOthers

SpecQuota == InitQuota /\ [][NextInc]_vars

-----------------------------------------------------------------------------
(* Vocabulary of the properties *)

(* A source record maps to (ent, dt) *)
HasRecord(ent, dt) ==
    \E i \in 1 .. Len(df_source) :
        /\ df_source[i].ent \in DOMAIN mapping
        /\ mapping[df_source[i].ent] = ent
        /\ df_source[i].date = dt

(* The pairs (position in the entity axis, date-axis column with a date)   *)
(* some source record maps to *)
MatchedPairs(sc) ==
    {p \in (1 .. Len(sc.ent_rows)) \X (DOMAIN sc.date_map) :
        /\ sc.date_map[p[2]] # NaT
        /\ HasRecord(sc.target_entities[p[1]], sc.date_map[p[2]])}

(* The sum of the amounts of the source records that map to key *)
RECURSIVE GroupSumFrom(_, _)
GroupSumFrom(key, i) ==
    IF i > Len(df_source) THEN 0
    ELSE GroupSumFrom(key, i + 1) +
         (IF /\ df_source[i].ent \in DOMAIN mapping
             /\ <<mapping[df_source[i].ent], df_source[i].date>> = key
          THEN df_source[i].amt ELSE 0)
GroupSum(key) == GroupSumFrom(key, 1)

GroupAmounts(key) ==
    {df_source[i].amt : i \in {i \in 1 .. Len(df_source) :
        /\ df_source[i].ent \in DOMAIN mapping
        /\ <<mapping[df_source[i].ent], df_source[i].date>> = key}}

(* The amount a duplicate group is to resolve to under choice sel *)
Expected(key, sel, a) ==
    IF sel = SUM THEN a = GroupSum(key)
    ELSE a \in GroupAmounts(key) /\ StrOf(a) = sel.txt

-----------------------------------------------------------------------------
C2_DuplicateAmount ==
    out = "saved" =>
        LET sc == Scan(df_raw)
        IN \A key \in DOMAIN CurDups :
             \A p \in MatchedPairs(sc) :
                (sc.target_entities[p[1]] = key[1] /\ sc.date_map[p[2]] = key[2])
                  => /\ Saved(sc.ent_rows[p[1]], p[2] - 1).k = "num"
                     /\ Expected(key, session_state[key],
                                 Saved(sc.ent_rows[p[1]], p[2] - 1).n)

(* C2 witness: two duplicate groups written, one resolved by 'SUM' to 150  *)
(* and one by the chosen amount 100. *)
C2_Witness ==
    /\ out = "saved"
    /\ \E k1, k2 \in DOMAIN CurDups :
         /\ k1 # k2
         /\ session_state[k1] = SUM /\ chosen[k1] = 150
         /\ session_state[k2] = Opt(100) /\ chosen[k2] = 100
         /\ \E c1, c2 \in DOMAIN ws : ws[c1] = NumCell(150) /\ ws[c2] = NumCell(100)

(* C3: after a run triggered by "Sum All Duplicates" every duplicate group *)
(* is resolved by 'SUM', whatever was selected or clicked before; after a  *)
(* run triggered by a radio, that group holds the selection, also when the *)
(* bulk action was clicked earlier; and later runs (finalize, or a radio   *)
(* of another group) leave a group's choice as it was.                     *)
C3_StateOk ==
    /\ last.type = "sumall" =>
          \A key \in DOMAIN CurDups :
             session_state[key] = SUM /\ chosen[key] = GroupSum(key)
    /\ last.type = "radio" =>
          /\ session_state[last.key] = last.opt
          /\ Expected(last.key, last.opt, chosen[last.key])
C3_StepOk ==
    /\ last'.type = "finalize" => session_state' = session_state /\ chosen' = chosen
    /\ last'.type = "radio" =>
          \A key \in DOMAIN session_state :
             key # last'.key => /\ session_state'[key] = session_state[key]
                                /\ chosen'[key] = chosen[key]
C3_BulkAndOverride == []C3_StateOk /\ [][C3_StepOk]_vars

(* C3 witness: a group holds a selected amount after the bulk action was   *)
(* clicked, and a finalize run has kept it. *)
C3_Witness ==
    /\ last.type = "finalize"
    /\ last.bulk
    /\ \E key \in DOMAIN session_state : session_state[key] # SUM

(* C4: a sheet without "Investing Entity" or without "GP" in the entity    *)
(* column, or without a "Last Day" header, fails the scan with a           *)
(* LayoutError.                                                            *)
C4_LayoutError ==
    (/\ pc # "uploaded"
     /\ \/ IERows(df_raw) = {}
        \/ GPRows(df_raw) = {}
        \/ date_cols(df_raw) = {})
       => pc = "error" /\ err = "LayoutError"

(* C5: the entity axis is the rows strictly between the first "Investing   *)
(* Entity" row and the first "GP" row strictly below it, in order; a "GP"  *)
(* above the label is not the lower sentinel.                              *)
C5_EntityAxis ==
    (/\ pc = "ready"
     /\ \E r \in GPRows(df_raw) : r > ent_label_row(df_raw))
       => LET ie == ent_label_row(df_raw)
              gp == SetMin({r \in GPRows(df_raw) : r > ie})
          IN /\ Scan(df_raw).ent_rows = Range(ie + 1, gp)
             /\ Len(Scan(df_raw).ent_rows) = gp - ie - 1

(* C8 as stated: the amount of a matched pair of a named entity is in the  *)
(* entity's row and in the date-axis column itself.                        *)
C8_WrittenInDateColumn ==
    out = "saved" =>
        LET sc == Scan(df_raw)
        IN \A p \in MatchedPairs(sc) :
              sc.target_entities[p[1]] # ""
                 => Saved(sc.ent_rows[p[1]], p[2]) =
                       NumCell(Amt(sc, df_source, mapping, chosen, p))

(* C8 amended: the amount of a matched pair is in the entity's row and in  *)
(* the column left of the date-axis column (the writer is given the scan's *)
(* 0-based column as a 1-based one); a finalize run with a matched pair in *)
(* the sheet's first column fails and saves nothing; the cell left of a    *)
(* date-axis column whose date is null keeps its value.                    *)
C8_WrittenLeftOfDateColumn ==
    LET sc == Scan(df_raw)
    IN /\ out = "saved" =>
            /\ \A p \in MatchedPairs(sc) :
                  /\ p[2] >= 1
                  /\ Saved(sc.ent_rows[p[1]], p[2] - 1) =
                        NumCell(Amt(sc, df_source, mapping, chosen, p))
            /\ \A i \in 1 .. Len(sc.ent_rows), j \in DOMAIN sc.date_map :
                  (sc.date_map[j] = NaT /\ j >= 1)
                     => Saved(sc.ent_rows[i], j - 1) = df_raw[sc.ent_rows[i]][j - 1]
       /\ (last.type = "finalize" /\ \E p \in MatchedPairs(sc) : p[2] = 0)
             => out = "crash"

(* C8 witness: a saved workbook with the amount of a matched pair left of  *)
(* its date column and the date column itself as uploaded, beside a        *)
(* date-axis column with a null date. *)
C8_Witness ==
    /\ out = "saved"
    /\ LET sc == Scan(df_raw)
       IN /\ \E p \in MatchedPairs(sc) :
               /\ Saved(sc.ent_rows[p[1]], p[2] - 1) = NumCell(100)
               /\ Saved(sc.ent_rows[p[1]], p[2]) = NumCell(7)
          /\ \E j \in DOMAIN sc.date_map : sc.date_map[j] = NaT

(* C7: every distinct source name gets one suggestion, which depends on    *)
(* that name and the target names only: it is empty or a target name whose *)
(* similarity to the source name is at least 0.6 and is the highest of all *)
(* target names, and it is empty exactly when no target name scores 0.6.   *)
C7_Suggestions ==
    map_df # NotSuggested =>
        /\ DOMAIN map_df = unique_src
        /\ \A x \in unique_src :
             LET sg == map_df[x]
                 good == {i \in 1 .. Len(possibilities) :
                            AtLeastCutoff(ratio(possibilities[i], x))}
             IN IF good = {} THEN sg = <<>>
                ELSE /\ \E i \in good : possibilities[i] = sg
                     /\ \A j \in 1 .. Len(possibilities) :
                           ~ ScoreLess(ratio(sg, x), ratio(possibilities[j], x))

(* C7 witness: of two source names one gets no suggestion and the other    *)
(* the better of two target names that both score 0.6 or more. *)
C7_Witness ==
    /\ map_df # NotSuggested
    /\ \E x, y \in unique_src :
         /\ map_df[x] = <<>>
         /\ map_df[y] # <<>>
         /\ Len(possibilities) = 2
         /\ \A i \in 1 .. 2 : AtLeastCutoff(ratio(possibilities[i], y))
         /\ ScoreLess(ratio(possibilities[1], y), ratio(possibilities[2], y))
         /\ map_df[y] = possibilities[2]

-----------------------------------------------------------------------------
(* Vocabulary of the incomplete flow's properties *)

(* The blocks of the saved sheet the last run wrote: those whose row-4     *)
(* "Last Day" cell it wrote, by the block's first column                   *)
WrittenBases == {c[2] - 1 : c \in {c \in DOMAIN iws : c[1] = 4 /\ (c[2] - first_col) % width = 1}}

RealDates == SelectSeq(dates_to_use, LAMBDA d : d # placeholder)
Placeholders == SelectSeq(dates_to_use, LAMBDA d : d = placeholder)

(* C6: a run that saves a workbook for N selected dates appends exactly    *)
(* ceil(25 N / 14) blocks: the N real dates, then ceil(25 N / 14) - N      *)
(* blocks dated with the placeholder; for N = 0 nothing is written, for    *)
(* N = 1 two blocks are appended and the second is the placeholder.        *)
C6_Quota ==
    iout = "saved" =>
        LET N == n_real
            total == (25 * N + 13) \div 14
        IN /\ Len(dates_to_use) = total
           /\ Cardinality(WrittenBases) = total
           /\ Len(RealDates) = N
           /\ Len(Placeholders) = total - N
           /\ \A i \in 1 .. total :
                 iws[<<4, BlockBase(i - 1) + 1>>] = FullLabel(dates_to_use[i])
           /\ (N = 0 => iws = NoIncCells)
           /\ (N = 1 => total = 2 /\ dates_to_use[2] = placeholder)

C6_Witness ==
    /\ iout = "saved" /\ n_real = 5
    /\ Len(dates_to_use) = 9
    /\ Cardinality(WrittenBases) = 9

C10_OnlyNewDates ==
    iout = "saved" =>
        LET real == RealDates
        IN /\ \A i \in 1 .. (Len(real) - 1) : real[i] < real[i + 1]
           /\ \A i \in 1 .. Len(real), b \in 1 .. inc_target.k :
                 real[i] # BlockDate(b)

(* C11: a source record mapped to "" takes part in no duplicate group, and *)
(* no amount of such a record is written: every cell of a saved workbook   *)
(* that write-back wrote lies in the row of a named entity that some       *)
(* source record maps to, also when the entity axis has a row whose        *)
(* trimmed name is empty.                                                  *)
C11_UnmappedExcluded ==
    LET sc == Scan(df_raw)
    IN /\ pc = "ready" => \A key \in DOMAIN CurDups : key[1] # ""
       /\ out = "saved" =>
            \A c \in DOMAIN ws :
                \E i \in 1 .. Len(sc.ent_rows) :
                    /\ sc.ent_rows[i] + 1 = c[1]
                    /\ sc.target_entities[i] # ""
                    /\ \E dt \in Dates : HasRecord(sc.target_entities[i], dt)

==========================================================================
